---- MODULE Spec2Model ----
(***************************************************************************)
(* A model of notionstar (src/src/main.rs): one run of `main` reconciles   *)
(* the user's starred GitHub repositories with the pages of a Notion       *)
(* database: it creates a page for every star without one, archives the    *)
(* pages without a star, re-reads the database and patches the two date    *)
(* columns of every page from the latest release and the latest commit.    *)
(*                                                                         *)
(* The Notion database and GitHub are the environment.  The database is    *)
(* `store` (a page's id is its index), GitHub's starred list is `starred`. *)
(* Every remote call has its outcomes drawn with \E: the answer, a         *)
(* non-success response, a transport error.                                *)
(***************************************************************************)
EXTENDS Integers, Sequences, FiniteSets, TLC

\* ------------------------------------------------------------- bounds
MaxStars == 2      \* longest starred list GitHub returns
MaxDate == 1       \* calendar days 1..MaxDate
MaxRuns == 2       \* runs of the program in one behaviour
MaxRecords == 3    \* pages the database ever holds
MaxCalls == 3      \* longest list handed to archive_repo on its own

\* ------------------------------------------------------------- values
\* Option<NaiveDate>
None == <<>>
Some(d) == <<d>>
Unwrap(opt) == opt[1]

Dates == 1..MaxDate
DateOpt == {None} \cup {Some(d) : d \in Dates}

\* A GitHub timestamp is a day and an hour of that day.
Hours == {0, 23}
Timestamps == {d * 100 + h : d \in Dates, h \in Hours}

\* chrono: DateTime<Utc>::naive_utc().date()
naive_date(ts) == ts \div 100

\* octocrab::models::Repository, the fields main.rs reads.  "A" and "a"
\* differ in case only; "A" is starred under two owners.
Repos ==
    { [name |-> "A", owner |-> "o1"],
      [name |-> "A", owner |-> "o2"],
      [name |-> "a", owner |-> "o1"],
      [name |-> "B", owner |-> "o1"] }

html_url(repo) == <<repo.owner, repo.name>>

\* The names of the two date columns as main.rs spells them.
\*   RELEASE_KEY        "上次release"  read at line 88, written at line 332
\*   COMMIT_READ_KEY    "上次commit"   read at line 119
\*   COMMIT_WRITE_KEY   "上次Commit"   written at line 345
RELEASE_KEY == "last_release"
COMMIT_READ_KEY == "last_commit"
COMMIT_WRITE_KEY == "last_Commit"

VARIABLES
    store,          \* Notion: the pages of the database, archived ones included
    commitColumn,   \* Notion: the name the database gives its commit-date column
    starred,        \* GitHub: the authenticated user's starred repositories
    pc,             \* main: the statement the run is at
    panicCause,     \* main: the call whose unwrap() ended the run
    database,       \* main: `database`, line 28
    stars,          \* main: `stars`, line 29
    new_database,   \* main: `new_database`, line 67
    i,              \* the index of the loop the run is in
    created,        \* history: the create calls of this run
    archived,       \* history: the archive calls of this run
    checked,        \* history: the freshness checks of this run
    patched,        \* history: the update_date calls of this run
    runs,           \* history: runs started
    prev,           \* history: the run before this one
    pager           \* get_stars / get_database: the locals of the paging loop

vars == <<store, commitColumn, starred, pc, panicCause, database, stars,
          new_database, i, created, archived, checked, patched, runs, prev,
          pager>>


\* ------------------------------------------------------------- Notion
\* A stored page.  `release` and `commit` are the values of the two date
\* columns; `url` and `owner` the columns new_data fills.
NewPage_swapped(name, url, owner) ==
    [title |-> owner, url |-> url, owner |-> name,
     release |-> None, commit |-> None, archived |-> FALSE]
NewPage(name, url, owner) ==
    [title |-> name, url |-> url, owner |-> owner,
     release |-> None, commit |-> None, archived |-> FALSE]

\* Page.properties as the API returns it: keyed by column name.
PropertiesOf(rec) ==
    (RELEASE_KEY :> rec.release) @@ (commitColumn :> rec.commit)

PageOf(st, id) ==
    [id |-> id, title |-> st[id].title, properties |-> PropertiesOf(st[id])]

Ids(st) == [k \in 1..Len(st) |-> k]

Live_all(st, id) == TRUE
Live(st, id) == ~st[id].archived

\* Notion::get_database: every page of every result page of the query, in
\* order; the query leaves archived pages out.
get_database(st) ==
    LET ids == SelectSeq(Ids(st), LAMBDA id : Live(st, id))
    IN  [k \in 1..Len(ids) |-> PageOf(st, ids[k])]

\* PATCH /v1/pages/{id} with {"properties": body}: the keys of body must be
\* columns of the database, else the request is refused as a whole.
Columns == {RELEASE_KEY, commitColumn}
BodyKeys(body) == {p[1] : p \in body}
BodyValue(body, key) == (CHOOSE p \in body : p[1] = key)[2]
Accepts(body) == BodyKeys(body) \subseteq Columns
PatchPage(rec, body) ==
    [rec EXCEPT
       !.release = IF RELEASE_KEY \in BodyKeys(body)
                   THEN BodyValue(body, RELEASE_KEY) ELSE @,
       !.commit = IF commitColumn \in BodyKeys(body)
                  THEN BodyValue(body, commitColumn) ELSE @]

\* PATCH /v1/pages/{id} with {"archived": true}
ArchivePage_toggle(rec) == [rec EXCEPT !.archived = ~@]
ArchivePage(rec) == [rec EXCEPT !.archived = TRUE]

\* ------------------------------------------------------------- main
\* star_map: HashMap<String, Repository>; collect() keeps the last star of a name
star_map(ss) ==
    [n \in {ss[k].name : k \in DOMAIN ss} |->
        ss[CHOOSE k \in DOMAIN ss :
              /\ ss[k].name = n
              /\ \A j \in DOMAIN ss : ss[j].name = n => j <= k]]

star_index(ss) == DOMAIN star_map(ss)

database_index(db) == {db[k].title : k \in DOMAIN db}

\* HashSet::contains compares the bytes of the strings
Lower(name) == IF name = "A" THEN "a" ELSE IF name = "B" THEN "b" ELSE name
NameIn_nocase(name, index) == Lower(name) \in {Lower(n) : n \in index}
NameIn(name, index) == name \in index

update_stars(ss, db) ==
    SelectSeq(ss, LAMBDA star : ~NameIn(star.name, database_index(db)))

delete_stars_kept(ss, db) ==
    SelectSeq(db, LAMBDA page : NameIn(page.title, star_index(ss)))
delete_stars(ss, db) ==
    SelectSeq(db, LAMBDA page : ~NameIn(page.title, star_index(ss)))

\* Option<NaiveDate> of a date column: a missing column reads as None
StoredDate(properties, key) ==
    IF key \in DOMAIN properties THEN properties[key] ELSE None

notion_last_update(page) == StoredDate(page.properties, RELEASE_KEY)
notion_commit(page) == StoredDate(page.properties, COMMIT_READ_KEY)

\* release_date / commit_date: the observed date if it differs from the stored one
Delta_inverted(observed, stored) == IF observed = stored THEN observed ELSE None
Delta(observed, stored) == IF observed # stored THEN observed ELSE None

\* Notion::update_date: the request body; an absent date adds no key
update_date_body_both(release, commit) ==
    {<<RELEASE_KEY, release>>, <<COMMIT_WRITE_KEY, commit>>}
update_date_body_null(release, commit) ==
    {<<RELEASE_KEY, release>>}
    \cup (IF commit # None THEN {<<COMMIT_WRITE_KEY, Some(Unwrap(commit))>>} ELSE {})
update_date_body(release, commit) ==
    (IF release # None THEN {<<RELEASE_KEY, Some(Unwrap(release))>>} ELSE {})
    \cup (IF commit # None THEN {<<COMMIT_WRITE_KEY, Some(Unwrap(commit))>>} ELSE {})


\* ------------------------------------------------------------- GitHub
\* What a lookup can answer.  get_latest: an error, a release without
\* published_at, a release published at a timestamp.  list_commits: an error,
\* no commit, a first commit without committer, a committer without date, a
\* committer date.
Answer(kind, at) == [kind |-> kind, at |-> at]
Dated == {Answer("Ok", t) : t \in Timestamps}
ReleaseAnswers ==
    {Answer(k, 0) : k \in {"Err", "NoPublishedAt"}} \cup Dated
CommitAnswers ==
    {Answer(k, 0) : k \in {"Err", "Empty", "NoCommitter", "NoDate"}} \cup Dated

\* lastupdate, lines 81-87; published_at.unwrap() panics on NoPublishedAt
lastupdate_default(answer) ==
    IF answer.kind = "Ok" THEN Some(naive_date(answer.at)) ELSE Some(1)
lastupdate(answer) ==
    IF answer.kind = "Ok" THEN Some(naive_date(answer.at)) ELSE None

\* commit, lines 103-118; committer.unwrap() panics on NoCommitter
commit(answer) ==
    IF answer.kind = "Ok" THEN Some(naive_date(answer.at)) ELSE None

StarSeqs ==
    UNION {[1..n -> Repos] : n \in 0..MaxStars}

\* ------------------------------------------------------------- the run
\* The statements of main in the order it runs them: lines 28, 29, 51, 65, 67,
\* 77 and the end of main.
ProgramOrder_swapped ==
    <<"get_database", "get_stars", "archive_repo", "add_repo",
      "get_new_database", "update", "done">>
ProgramOrder ==
    <<"get_database", "get_stars", "add_repo", "archive_repo",
      "get_new_database", "update", "done">>

After(label) ==
    ProgramOrder[1 + CHOOSE k \in 1..Len(ProgramOrder) - 1 : ProgramOrder[k] = label]

\* line 77: for page in new_database
UpdateQueue_stale ==
    SelectSeq(database, LAMBDA page : NameIn(page.title, star_index(stars)))
UpdateQueue == new_database

\* line 137: release_date.is_none() && commit_date.is_none()
NothingToUpdate(release_date, commit_date) ==
    release_date = None /\ commit_date = None

NoRun == [done |-> FALSE, obs |-> <<>>, clean |-> FALSE]

Obs(chk) == [k \in 1..Len(chk) |-> <<chk[k].id, chk[k].release, chk[k].commit>>]

\* The database has room for the pages a run on these stars creates.
Fits(ss) ==
    Len(store) + Len(update_stars(ss, get_database(store))) <= MaxRecords

\* No paging loop is being followed.
NoPager ==
    [fn |-> "none", service |-> <<>>, page |-> 1, next_cursor |-> None,
     results |-> <<>>, state |-> "idle"]

Init ==
    /\ store = <<>>
    /\ commitColumn \in {COMMIT_WRITE_KEY, COMMIT_READ_KEY}
    /\ starred \in StarSeqs
    /\ pc = ProgramOrder[1]
    /\ panicCause = "none"
    /\ database = <<>>
    /\ stars = <<>>
    /\ new_database = <<>>
    /\ i = 1
    /\ created = <<>>
    /\ archived = <<>>
    /\ checked = <<>>
    /\ patched = <<>>
    /\ runs = 1
    /\ prev = NoRun
    /\ pager = NoPager

Panic(cause) ==
    /\ pc' = "panic"
    /\ panicCause' = cause

\* line 28: let database = notion.get_database().await
GetDatabase ==
    /\ pc = "get_database"
    /\ \/ /\ database' = get_database(store)
          /\ pc' = After(pc)
          /\ UNCHANGED panicCause
       \/ /\ Panic("get_database")
          /\ UNCHANGED database
    /\ UNCHANGED <<pager, store, commitColumn, starred, stars, new_database, i,
                   created, archived, checked, patched, runs, prev>>

\* line 29: let stars = notion.get_stars().await
GetStars ==
    /\ pc = "get_stars"
    /\ \/ /\ stars' = starred
          /\ pc' = After(pc)
          /\ i' = 1
          /\ UNCHANGED panicCause
       \/ /\ Panic("get_stars")
          /\ UNCHANGED <<stars, i>>
    /\ UNCHANGED <<pager, store, commitColumn, starred, database, new_database,
                   created, archived, checked, patched, runs, prev>>

\* line 51, Notion::add_repo: one turn of `for star in stars`, or its end
AddRepo ==
    /\ pc = "add_repo"
    /\ LET todo == update_stars(stars, database) IN
       \/ /\ i <= Len(todo)
          /\ \/ \* create_page answered with the new page
                /\ store' = Append(store,
                                   NewPage(todo[i].name, html_url(todo[i]), todo[i].owner))
                /\ created' = Append(created, [name |-> todo[i].name, id |-> Len(store) + 1,
                                                repo |-> todo[i]])
                /\ i' = i + 1
                /\ UNCHANGED <<pc, panicCause>>
             \/ \* create_page failed: new_data unwraps the Err, line 275
                /\ Panic("create_page")
                /\ UNCHANGED <<store, created, i>>
       \/ /\ i > Len(todo)
          /\ pc' = After(pc)
          /\ i' = 1
          /\ UNCHANGED <<store, created, panicCause>>
    /\ UNCHANGED <<pager, commitColumn, starred, database, stars, new_database,
                   archived, checked, patched, runs, prev>>

\* line 65, Notion::archive_repo: one turn of `for star in stars`, or its end
ArchiveRepo ==
    /\ pc = "archive_repo"
    /\ LET todo == delete_stars(stars, database) IN
       \/ /\ i <= Len(todo)
          /\ \/ \* a success response
                /\ store' = [store EXCEPT ![todo[i].id] = ArchivePage(@)]
                /\ archived' = Append(archived, [id |-> todo[i].id, ok |-> TRUE])
                /\ i' = i + 1
                /\ UNCHANGED <<pc, panicCause>>
             \/ \* a non-success response is printed, lines 315-317
                /\ archived' = Append(archived, [id |-> todo[i].id, ok |-> FALSE])
                /\ i' = i + 1
                /\ UNCHANGED <<store, pc, panicCause>>
             \/ \* send() failed: unwrap, line 314
                /\ Panic("archive_send")
                /\ UNCHANGED <<store, archived, i>>
       \/ /\ i > Len(todo)
          /\ pc' = After(pc)
          /\ i' = 1
          /\ UNCHANGED <<store, archived, panicCause>>
    /\ UNCHANGED <<pager, commitColumn, starred, database, stars, new_database,
                   created, checked, patched, runs, prev>>

\* line 67: let new_database = notion.get_database().await
GetNewDatabase ==
    /\ pc = "get_new_database"
    /\ \/ /\ new_database' = get_database(store)
          /\ pc' = After(pc)
          /\ i' = 1
          /\ UNCHANGED panicCause
       \/ /\ Panic("get_new_database")
          /\ UNCHANGED <<new_database, i>>
    /\ UNCHANGED <<pager, store, commitColumn, starred, database, stars,
                   created, archived, checked, patched, runs, prev>>


\* Notion::update_date, lines 322-370, called with release_date and commit_date
\* on the page `id`; `outcome` is what the request met.
UpdateDateOutcomes(body) ==
    IF body = {} THEN {"return"}
    ELSE {"transport", "refused"} \cup (IF Accepts(body) THEN {"ok"} ELSE {})

update_date(id, release, commit_, outcome) ==
    LET body == update_date_body(release, commit_)
        after == IF outcome = "ok" THEN PatchPage(store[id], body) ELSE store[id]
    IN  /\ store' = [store EXCEPT ![id] = after]
        /\ patched' = Append(patched,
                             [id |-> id, release |-> release, commit |-> commit_,
                              outcome |-> outcome,
                              before |-> store[id], after |-> after])
        /\ IF outcome = "transport"
           THEN Panic("update_send")             \* send().await.unwrap(), line 366
           ELSE UNCHANGED <<pc, panicCause>>

\* lines 77-150: one turn of `for page in new_database`, or its end
Update ==
    /\ pc = "update"
    /\ \/ /\ i <= Len(UpdateQueue)
          /\ LET page == UpdateQueue[i]
                 name == page.title
             IN
             \/ \* star_map.get(&name).unwrap(), line 80
                /\ name \notin DOMAIN star_map(stars)
                /\ Panic("star_map_get")
                /\ UNCHANGED <<store, checked, patched, i>>
             \/ /\ name \in DOMAIN star_map(stars)
                /\ \E ra \in ReleaseAnswers, ca \in CommitAnswers :
                     IF ra.kind = "NoPublishedAt"
                     THEN /\ Panic("published_at")         \* line 85
                          /\ UNCHANGED <<store, checked, patched, i>>
                     ELSE IF ca.kind = "NoCommitter"
                     THEN /\ Panic("committer")            \* line 111
                          /\ UNCHANGED <<store, checked, patched, i>>
                     ELSE
                     LET release_date == Delta(lastupdate(ra), notion_last_update(page))
                         commit_date == Delta(commit(ca), notion_commit(page))
                     IN  /\ checked' = Append(checked,
                                [id |-> page.id, repo |-> star_map(stars)[name],
                                 release |-> lastupdate(ra), commit |-> commit(ca),
                                 failed |-> [release |-> ra.kind = "Err",
                                             commit |-> ca.kind = "Err"],
                                 stored |-> store[page.id]])
                         /\ i' = i + 1
                         /\ IF NothingToUpdate(release_date, commit_date)
                            THEN UNCHANGED <<store, patched, pc, panicCause>>  \* line 139
                            ELSE \E outcome \in
                                    UpdateDateOutcomes(update_date_body(release_date, commit_date)) :
                                    update_date(page.id, release_date, commit_date, outcome)
       \/ /\ i > Len(UpdateQueue)
          /\ pc' = After(pc)
          /\ UNCHANGED <<store, checked, patched, i, panicCause>>
    /\ UNCHANGED <<pager, commitColumn, starred, database, stars, new_database,
                   created, archived, runs, prev>>

\* The scheduler starts the program again; the user's stars may have changed.
NextRun ==
    /\ pc \in {"done", "panic"}
    /\ runs < MaxRuns
    /\ \E ss \in StarSeqs :
         /\ Fits(ss)
         /\ starred' = ss
         /\ prev' = IF pc = "done" /\ ss = starred
                    THEN [done |-> TRUE, obs |-> Obs(checked),
                          clean |-> \A k \in DOMAIN patched : patched[k].outcome = "ok"]
                    ELSE NoRun
    /\ runs' = runs + 1
    /\ pc' = ProgramOrder[1]
    /\ panicCause' = "none"
    /\ database' = <<>>
    /\ stars' = <<>>
    /\ new_database' = <<>>
    /\ i' = 1
    /\ created' = <<>>
    /\ archived' = <<>>
    /\ checked' = <<>>
    /\ patched' = <<>>
    /\ UNCHANGED <<pager, store, commitColumn>>

Next ==
    \/ GetDatabase
    \/ GetStars
    \/ AddRepo
    \/ ArchiveRepo
    \/ GetNewDatabase
    \/ Update
    \/ NextRun

Spec == Init /\ [][Next]_vars


\* ------------------------------------------------------------- properties
\* The run has fetched `database`; it has fetched `stars` too.
FetchedDatabase ==
    /\ pc # "get_database"
    /\ ~(pc = "panic" /\ panicCause = "get_database")
Fetched ==
    /\ FetchedDatabase
    /\ pc # "get_stars"
    /\ ~(pc = "panic" /\ panicCause = "get_stars")

\* The create pass and the archive pass have completed.
ReconcileDone == pc \in {"get_new_database", "update", "done"}

LiveIds == {id \in 1..Len(store) : ~store[id].archived}
LiveTitles == {store[id].title : id \in LiveIds}
StarNames == {stars[k].name : k \in DOMAIN stars}
SnapshotTitles == {database[k].title : k \in DOMAIN database}

\* toCreate and toArchive as section 4.3 of the specification defines them
ToCreate == SelectSeq(stars, LAMBDA s : s.name \notin SnapshotTitles)
ToArchive == SelectSeq(database, LAMBDA m : m.title \notin StarNames)

NamesOf(seq) == [k \in 1..Len(seq) |-> seq[k].name]
IdsOf(seq) == [k \in 1..Len(seq) |-> seq[k].id]
Range(seq) == {seq[k] : k \in DOMAIN seq}
Prefix(seq, n) == SubSeq(seq, 1, n)

AllArchived == \A k \in DOMAIN archived : archived[k].ok
AllPatched == \A k \in DOMAIN patched : patched[k].outcome = "ok"

C2_Idempotence ==
    (pc = "done" /\ prev.done /\ prev.clean /\ prev.obs = Obs(checked))
        => (created = <<>> /\ archived = <<>> /\ patched = <<>>)

\* C3: update_date is never called with both dates absent, and a call with
\* one date absent leaves that stored date of the page as it was.
C3_NoClobber ==
    \A k \in DOMAIN patched :
        LET p == patched[k] IN
        /\ ~(p.release = None /\ p.commit = None)
        /\ p.release = None => p.after.release = p.before.release
        /\ p.commit = None => p.after.commit = p.before.commit

C3_Witness ==
    \E k \in DOMAIN patched :
        LET p == patched[k] IN
        /\ p.outcome = "ok"
        /\ p.release = None
        /\ p.commit # None
        /\ p.before.release # None
        /\ p.after.commit = p.commit


\* C4: the create calls of a run are the stars whose name is no title of the
\* fetched snapshot, in order, and its archive calls are the pages of the
\* snapshot whose title is no star's name; names are compared byte for byte
\* and the owner plays no part; no other page appears or is archived.
C4_DiffSets ==
    Fetched =>
        /\ Len(created) <= Len(ToCreate)
        /\ NamesOf(created) = Prefix(NamesOf(ToCreate), Len(created))
        /\ Len(archived) <= Len(ToArchive)
        /\ IdsOf(archived) = Prefix(IdsOf(ToArchive), Len(archived))
        /\ ReconcileDone =>
              (Len(created) = Len(ToCreate) /\ Len(archived) = Len(ToArchive))
        /\ \A k \in DOMAIN created : store[created[k].id].title = created[k].name
        /\ LiveIds =
              (Range(IdsOf(database)) \cup Range(IdsOf(created)))
                 \ {archived[k].id : k \in {j \in DOMAIN archived : archived[j].ok}}

C4_Witness ==
    /\ ReconcileDone
    /\ archived # <<>>
    /\ "A" \in SnapshotTitles
    /\ \E k \in DOMAIN created : created[k].name = "a"
    /\ \E k \in DOMAIN stars, j \in DOMAIN database :
          /\ stars[k].name = database[j].title
          /\ stars[k].owner # store[database[j].id].owner

KeptIds == {database[k].id : k \in {j \in DOMAIN database : database[j].title \in StarNames}}

\* C5 as claimed: the pages a completed run has freshness-checked are the
\* pages of the snapshot fetched at its start whose title is still starred.
C5_FreshnessCheckSet ==
    pc = "done" => Range(IdsOf(checked)) = KeptIds

\* C5 as amended: a run freshness-checks pages of the collection it fetches
\* again after its creates and archives, each once; a completed run has
\* checked the still-starred pages of the first snapshot and the pages it
\* created itself.
C5_FreshnessCheckRefetched ==
    Fetched =>
        /\ Range(IdsOf(checked)) \subseteq LiveIds
        /\ Cardinality(Range(IdsOf(checked))) = Len(checked)
        /\ pc = "done" =>
              Range(IdsOf(checked)) = KeptIds \cup Range(IdsOf(created))

C5_Witness ==
    /\ pc = "done"
    /\ Len(created) = 1
    /\ Len(archived) = 1
    /\ Cardinality(KeptIds) = 1
    /\ Len(database) = 2
    /\ Range(IdsOf(checked)) = KeptIds \cup {created[1].id}

\* C6: a create, archive or patch call that fails does not end the run.
C6_MutationFailuresContained ==
    pc = "panic" => panicCause \notin {"create_page", "archive_send", "update_send"}

FetchCauses == {"get_database", "get_stars", "get_new_database"}

\* C7: a run in which every request was answered and every answer was well
\* formed ends in a panic only when a fetch failed; a refused archive call
\* does not make it panic.
C7_FatalOnlyOnFetchFailure ==
    pc = "panic" =>
        panicCause \in FetchCauses \cup
            {"create_page", "archive_send", "update_send", "published_at", "committer"}

\* C8: within a run no create call follows an archive call or a freshness
\* check, every archive call comes after the last create call and before the
\* first freshness check, and every freshness check and patch comes after the
\* last create and the last archive call.
C8_Ordering ==
    [][/\ Len(created') > Len(created) =>
             (archived = <<>> /\ checked = <<>> /\ patched = <<>>)
       /\ Len(archived') > Len(archived) =>
             (Len(created) = Len(ToCreate) /\ checked = <<>> /\ patched = <<>>)
       /\ (Len(checked') > Len(checked) \/ Len(patched') > Len(patched)) =>
             (Len(created) = Len(ToCreate) /\ Len(archived) = Len(ToArchive))]_vars

C8_Witness ==
    /\ created # <<>>
    /\ archived # <<>>
    /\ checked # <<>>
    /\ patched # <<>>

PatchesOf(id) == {j \in DOMAIN patched : patched[j].id = id}

\* C9: a freshness-checked page gets at most one patch; where a date was
\* observed, the patch carries that field, with the observed date, exactly if
\* the observed date differs from the stored one.
C9_PatchContent ==
    \A k \in DOMAIN checked :
        LET c == checked[k]
            ps == PatchesOf(c.id)
        IN  /\ Cardinality(ps) <= 1
            /\ \A j \in ps :
                  /\ patched[j].release # None => patched[j].release = c.release
                  /\ patched[j].commit # None => patched[j].commit = c.commit
            /\ c.release # None =>
                  ((\E j \in ps : patched[j].release # None)
                      <=> c.release # c.stored.release)
            /\ c.commit # None =>
                  ((\E j \in ps : patched[j].commit # None)
                      <=> c.commit # c.stored.commit)

\* C10 as claimed: at the end of a run whose patches all succeeded, every
\* freshness-checked page stores the release date and the commit date the
\* run observed.
C10_Freshness ==
    (pc = "done" /\ AllPatched) =>
        \A k \in DOMAIN checked :
            /\ store[checked[k].id].release = checked[k].release
            /\ store[checked[k].id].commit = checked[k].commit

\* C10 as amended: at the end of a run whose patches all succeeded, every
\* freshness-checked page stores each date the run observed; a date the run
\* did not observe (no release, no commit, a failed lookup) is stored as it
\* was before the check.
C10_FreshnessObserved ==
    (pc = "done" /\ AllPatched) =>
        \A k \in DOMAIN checked :
            LET c == checked[k] IN
            /\ store[c.id].release = IF c.release # None THEN c.release ELSE c.stored.release
            /\ store[c.id].commit = IF c.commit # None THEN c.commit ELSE c.stored.commit

C10_Witness ==
    /\ pc = "done"
    /\ AllPatched
    /\ \E k \in DOMAIN checked :
          /\ checked[k].release # None
          /\ checked[k].stored.release = None
          /\ checked[k].commit # None
    /\ \E k \in DOMAIN checked :
          /\ checked[k].release = None
          /\ checked[k].stored.release # None


Last(seq) == seq[Len(seq)]

\* C11: a release or commit lookup that fails counts as no date observed:
\* the check of that page issues no patch of that field and leaves the stored
\* date of that field as it was, whatever it is; the run does not end there
\* (it can only end in the patch of the other field) and goes on to the next
\* page.
C11_LookupErrorsAbsorbed ==
    [][Len(checked') > Len(checked) =>
         LET c == Last(checked')
             patching == Len(patched') > Len(patched)
         IN  /\ c.failed.release =>
                   /\ c.release = None
                   /\ store'[c.id].release = store[c.id].release
                   /\ patching => Last(patched').release = None
             /\ c.failed.commit =>
                   /\ c.commit = None
                   /\ store'[c.id].commit = store[c.id].commit
                   /\ patching => Last(patched').commit = None
             /\ (c.failed.release \/ c.failed.commit) =>
                   /\ i' = i + 1
                   /\ pc' = "panic" => (patching /\ Last(patched').outcome = "transport")
             /\ (c.failed.release /\ c.failed.commit) =>
                   (pc' = pc /\ patched' = patched)]_vars

C11_Witness ==
    /\ pc = "done"
    /\ \E k \in 1..Len(checked) - 1 :
          /\ checked[k].failed.release
          /\ checked[k].stored.release = None
          /\ store[checked[k].id].release = None
    /\ \E k \in DOMAIN checked :
          /\ checked[k].failed.release
          /\ checked[k].stored.release # None

Distinct(seq) == \A j, k \in DOMAIN seq : j # k => seq[j] # seq[k]

\* C12: the starred collection a run works on holds each repo name once, so
\* that the run issues at most one create call per name.
C12_Deduplicated ==
    Fetched => Distinct(NamesOf(created))

CheckedAs(id) == {k \in DOMAIN checked : checked[k].id = id}

\* C13 as claimed: a created page has the repo's name as title, the repo's
\* owner and URL, and as stored dates the release and commit dates observed
\* for the repo (the run first observes them in the page's freshness check).
C13_CreateResult ==
    \A k \in DOMAIN created :
        LET r == store[created[k].id]
            repo == created[k].repo
        IN  /\ r.title = repo.name
            /\ r.owner = repo.owner
            /\ r.url = html_url(repo)
            /\ \A j \in CheckedAs(created[k].id) :
                  /\ checked[j].stored.release = checked[j].release
                  /\ checked[j].stored.commit = checked[j].commit

\* C13 as amended: a created page has the repo's name as title, the repo's
\* owner and URL, and both stored dates absent; they stay absent until the
\* page's freshness check later in the run.
C13_CreateResultAbsent ==
    \A k \in DOMAIN created :
        LET r == store[created[k].id]
            repo == created[k].repo
        IN  /\ r.title = repo.name
            /\ r.owner = repo.owner
            /\ r.url = html_url(repo)
            /\ ~r.archived
            /\ CheckedAs(created[k].id) = {} => (r.release = None /\ r.commit = None)
            /\ \A j \in CheckedAs(created[k].id) :
                  /\ checked[j].stored.release = None
                  /\ checked[j].stored.commit = None

C13_Witness ==
    \E k \in DOMAIN created :
        /\ created[k].repo.owner = "o2"
        /\ \E j \in CheckedAs(created[k].id) :
              /\ checked[j].release # None
              /\ checked[j].commit # None


\* ------------------------------------------------------------- archive_repo
\* Notion::archive_repo on its own: it is handed any list of pages of the
\* database, a page twice or an archived page included.
ArchiveStores ==
    {<<[NewPage("A", html_url([name |-> "A", owner |-> "o1"]), "o1")
           EXCEPT !.archived = a1, !.release = r1],
       [NewPage("B", html_url([name |-> "B", owner |-> "o1"]), "o1")
           EXCEPT !.archived = a2]>> :
        a1 \in BOOLEAN, a2 \in BOOLEAN, r1 \in DateOpt}

InitArchive ==
    /\ store \in ArchiveStores
    /\ commitColumn \in {COMMIT_WRITE_KEY, COMMIT_READ_KEY}
    /\ starred = <<>>
    /\ pc = "archive_repo"
    /\ panicCause = "none"
    /\ database \in UNION {[1..n -> {PageOf(store, id) : id \in DOMAIN store}] :
                            n \in 0..MaxCalls}
    /\ stars = <<>>
    /\ new_database = <<>>
    /\ i = 1
    /\ created = <<>>
    /\ archived = <<>>
    /\ checked = <<>>
    /\ patched = <<>>
    /\ runs = 1
    /\ prev = NoRun
    /\ pager = NoPager

SpecArchive == InitArchive /\ [][ArchiveRepo]_vars

\* C14: an archive call on a page that is already archived leaves the
\* database as it was, whatever the answer, as one call does; a call that is
\* answered changes no other page and nothing but the archived flag, and the
\* pass goes on to the next page.
C14_ArchiveIdempotent ==
    [][Len(archived') > Len(archived) =>
         LET a == Last(archived') IN
         /\ \A id \in DOMAIN store : id # a.id => store'[id] = store[id]
         /\ store'[a.id] =
               IF a.ok THEN [store[a.id] EXCEPT !.archived = TRUE] ELSE store[a.id]
         /\ store[a.id].archived => store' = store
         /\ pc' = pc
         /\ i' = i + 1]_vars

C14_Witness ==
    /\ Len(archived) >= 2
    /\ archived[1].id = archived[2].id
    /\ archived[1].ok
    /\ archived[2].ok
    /\ store[archived[1].id].archived
    /\ pc = "archive_repo"
    /\ i = 3


\* ------------------------------------------------------------- paging
MaxPages == 3      \* pages a service holds

\* What one page carries, and what a request is answered with.
PageItems == {<<>>, <<1>>, <<2, 1>>}
Failed == [ok |-> FALSE, items |-> <<>>, next_cursor |-> None]
Page(items, next_cursor) ==
    [ok |-> TRUE, items |-> items, next_cursor |-> next_cursor]

\* GitHub: the starred list, page by page; past its end a page is empty.
StarServices ==
    UNION {[1..n -> {Failed} \cup {Page(its, None) : its \in PageItems}] :
           n \in 0..MaxPages}
StarPage(service, page) ==
    IF page \in DOMAIN service THEN service[page] ELSE Page(<<>>, None)

\* Notion: the pages of a database query; a cursor names the page it opens,
\* no cursor the first one.  A cursor may point back.
NotionServices ==
    UNION {[1..n -> {Failed} \cup
                    {Page(its, nc) : its \in PageItems,
                                     nc \in {None} \cup {Some(k) : k \in 1..n}}] :
           n \in 1..MaxPages}
Serve(service, cursor) ==
    IF cursor = None THEN service[1] ELSE service[Unwrap(cursor)]

\* No chain that ends holds more than this; a chain that turns back is
\* followed until `results` is this long.
MaxResults == 2 * MaxPages

\* line 189: (&star_page).is_empty()
is_empty(star_page) == star_page = <<>>

\* lines 204-209: the query carries the cursor when there is one
start_from_none(next_cursor) == None
start_from(next_cursor) ==
    IF next_cursor # None THEN next_cursor ELSE None

\* lines 177-194: one turn of the loop of get_stars
GetStarsPage ==
    /\ pager.fn = "get_stars"
    /\ pager.state = "loop"
    /\ LET answer == StarPage(pager.service, pager.page)
       IN  pager' =
             IF ~answer.ok
             THEN [pager EXCEPT !.state = "panic"]              \* line 186
             ELSE IF is_empty(answer.items)
             THEN [pager EXCEPT !.state = "returned"]           \* line 190
             ELSE [pager EXCEPT !.results = @ \o answer.items,  \* line 192
                                !.page = @ + 1]
    /\ UNCHANGED <<store, commitColumn, starred, pc, panicCause, database,
                   stars, new_database, i, created, archived, checked,
                   patched, runs, prev>>

\* lines 203-222: one turn of the loop of get_database
GetDatabasePage ==
    /\ pager.fn = "get_database"
    /\ pager.state = "loop"
    /\ Len(pager.results) < MaxResults
    /\ LET answer == Serve(pager.service, start_from(pager.next_cursor))
       IN  pager' =
             IF ~answer.ok
             THEN [pager EXCEPT !.state = "panic"]              \* line 214
             ELSE IF answer.next_cursor = None                  \* line 217
             THEN [pager EXCEPT !.results = @ \o answer.items,
                                !.state = "returned"]
             ELSE [pager EXCEPT !.results = @ \o answer.items,
                                !.next_cursor = answer.next_cursor]
    /\ UNCHANGED <<store, commitColumn, starred, pc, panicCause, database,
                   stars, new_database, i, created, archived, checked,
                   patched, runs, prev>>

\* get_stars or get_database is entered, against any service.
InitPaging ==
    /\ store = <<>>
    /\ commitColumn = COMMIT_WRITE_KEY
    /\ starred = <<>>
    /\ pc = ProgramOrder[1]
    /\ panicCause = "none"
    /\ database = <<>>
    /\ stars = <<>>
    /\ new_database = <<>>
    /\ i = 1
    /\ created = <<>>
    /\ archived = <<>>
    /\ checked = <<>>
    /\ patched = <<>>
    /\ runs = 1
    /\ prev = NoRun
    /\ pager \in
         {[NoPager EXCEPT !.fn = "get_stars", !.service = s, !.state = "loop"] :
            s \in StarServices}
         \cup
         {[NoPager EXCEPT !.fn = "get_database", !.service = s, !.state = "loop"] :
            s \in NotionServices}

NextPaging ==
    \/ GetStarsPage
    \/ GetDatabasePage

\* A loop that can take a turn takes it: every request is answered.
SpecPaging == InitPaging /\ [][NextPaging]_vars /\ WF_vars(NextPaging)

\* What the service holds from `cursor` on: how the chain ends within `fuel`
\* pages, and the items of the pages up to the first one with no cursor.
RECURSIVE ChainFrom(_, _, _)
ChainFrom(service, cursor, fuel) ==
    IF fuel = 0 THEN [ends |-> "never", items |-> <<>>]
    ELSE LET answer == Serve(service, cursor)
         IN  IF ~answer.ok THEN [ends |-> "failed", items |-> <<>>]
             ELSE IF answer.next_cursor = None
             THEN [ends |-> "last", items |-> answer.items]
             ELSE LET rest == ChainFrom(service, answer.next_cursor, fuel - 1)
                  IN  [ends |-> rest.ends,
                       items |-> answer.items \o rest.items]

\* A chain that has not ended after as many pages as there are has turned back.
Chain(service) == ChainFrom(service, None, Len(service))

\* What GitHub holds from `page` on, up to the first empty page.
RECURSIVE StarsFrom(_, _)
StarsFrom(service, page) ==
    LET answer == StarPage(service, page)
    IN  IF ~answer.ok THEN [ends |-> "failed", items |-> <<>>]
        ELSE IF answer.items = <<>> THEN [ends |-> "last", items |-> <<>>]
        ELSE LET rest == StarsFrom(service, page + 1)
             IN  [ends |-> rest.ends, items |-> answer.items \o rest.items]

Held(p) ==
    IF p.fn = "get_stars" THEN StarsFrom(p.service, 1) ELSE Chain(p.service)

\* C15: get_database returns when the cursor chain ends, with the results of
\* every page up to and including the first one with no next_cursor;
\* get_stars returns at the first empty page with the items of every page
\* before it; neither returns anything else, and a page request that fails
\* ends the run with nothing returned.
C15_PaginationExhaustion ==
    /\ [](pager.state = "returned" =>
            /\ Held(pager).ends = "last"
            /\ pager.results = Held(pager).items)
    /\ [](pager.state = "panic" => Held(pager).ends = "failed")
    /\ [](Held(pager).ends = "last" => <>(pager.state = "returned"))
    /\ [](Held(pager).ends = "failed" => <>(pager.state = "panic"))

C15_Witness ==
    /\ pager.fn = "get_database"
    /\ pager.state = "returned"
    /\ pager.next_cursor = Some(3)
    /\ Len(pager.results) > 4


\* C16: the live pages of the database have pairwise distinct titles after
\* every completed run, the database having started with none.
C16_TitlesUnique ==
    pc = "done" =>
      \A a, b \in LiveIds : store[a].title = store[b].title => a = b


\* ------------------------------------------------------------- archived pages
\* A database that holds an archived page of repo A from earlier runs.
FrozenPage ==
    [NewPage("A", html_url([name |-> "A", owner |-> "o1"]), "o1")
       EXCEPT !.archived = TRUE, !.release = Some(MaxDate)]

InitFrozen ==
    /\ store = <<FrozenPage>>
    /\ commitColumn \in {COMMIT_WRITE_KEY, COMMIT_READ_KEY}
    /\ starred \in StarSeqs
    /\ pc = ProgramOrder[1]
    /\ panicCause = "none"
    /\ database = <<>>
    /\ stars = <<>>
    /\ new_database = <<>>
    /\ i = 1
    /\ created = <<>>
    /\ archived = <<>>
    /\ checked = <<>>
    /\ patched = <<>>
    /\ runs = 1
    /\ prev = NoRun
    /\ pager = NoPager

SpecFrozen == InitFrozen /\ [][Next]_vars

ArchivedIds == {id \in DOMAIN store : store[id].archived}

\* C17: no step changes a page that is archived, no archive or patch call
\* names one, and a create call makes a new page; a completed run leaves a
\* live page for every starred name, the names of archived pages included.
C17_ArchivedFrozen ==
    /\ [][/\ \A id \in ArchivedIds : store'[id] = store[id]
          /\ Len(archived') > Len(archived) =>
                Last(archived').id \notin ArchivedIds
          /\ Len(patched') > Len(patched) =>
                Last(patched').id \notin ArchivedIds
          /\ Len(created') > Len(created) =>
                Last(created').id \notin DOMAIN store]_vars
    /\ [](pc = "done" => StarNames \subseteq LiveTitles)

C17_Witness ==
    /\ pc = "done"
    /\ store[1] = FrozenPage
    /\ \E k \in DOMAIN created :
         /\ created[k].name = FrozenPage.title
         /\ created[k].id # 1
         /\ created[k].id \in LiveIds
         /\ \E j \in DOMAIN patched : patched[j].id = created[k].id


\* C18: no step turns a stored release date or a stored commit date that is
\* present into an absent one.
C18_DatesNeverCleared ==
    [][\A id \in DOMAIN store :
         /\ store[id].release # None => store'[id].release # None
         /\ store[id].commit # None => store'[id].commit # None]_vars

C18_Witness ==
    /\ pc = "done"
    /\ \E k \in DOMAIN checked :
         /\ checked[k].release = None
         /\ checked[k].stored.release # None
         /\ store[checked[k].id].release # None
         /\ \E j \in DOMAIN patched :
              /\ patched[j].id = checked[k].id
              /\ patched[j].outcome = "ok"
              /\ patched[j].before.release # None
====
